---------------------------- MODULE Spec2Model ----------------------------
(***************************************************************************)
(* A model of the Built Simple Research plugin for Obsidian (src/main.ts,  *)
(* the current version of the plugin, lines 348-701): the settings store,  *)
(* the search modal with its aggregating performSearch, and the citation   *)
(* formatter.                                                              *)
(*                                                                         *)
(* JavaScript runs every handler to its next `await` without interleaving. *)
(* performSearch is modelled with one action per synchronous piece; while  *)
(* an activation stands at a synchronous position (Running) no other       *)
(* action is enabled, so the pieces only expose the intermediate states.   *)
(***************************************************************************)
EXTENDS Integers, Sequences, FiniteSets, TLC

VARIABLES
    settings,          \* BuiltSimplePlugin.settings (Unloaded before onload)
    data,              \* the persisted blob behind loadData / saveData
    modal,             \* the SearchModal: "none", "open" or "closed"
    resultsContainer,  \* SearchModal.resultsContainer: NullEl or its children
    searches,          \* the activations of performSearch, in invocation order
    editor,            \* the text insertCitation put into the active editor
    saves              \* the saveData calls whose write has not landed yet

vars == <<settings, data, modal, resultsContainer, searches, editor, saves>>

-----------------------------------------------------------------------------
(* Bounds *)

\* slider values modelled: SliderMin..MaxSlider (the code allows up to SliderMax)
MaxSlider == 1
\* the most saveData calls in flight at once
MaxSaves == 2
\* the longest "results" array a remote service answers with
MaxHits == 2
\* the number of performSearch activations of the modelled modal
MaxSearches == 2

(* Program constants *)
SliderMin == 1
SliderMax == 20
DefaultMaxResults == 5
YearLen == 4

\* loadData() of a plugin that has saved nothing; plugin.settings before
\* onload; a resultsContainer that is still null
Null == [null |-> TRUE]
Unloaded == [unloaded |-> TRUE]
NullEl == [null |-> TRUE]
\* an HTML element, by its children
Element(children) == [children |-> children]

Min(a, b) == IF a < b THEN a ELSE b

-----------------------------------------------------------------------------
(* Settings store *)

SettingKeys == {"pubmedEnabled", "arxivEnabled", "wikipediaEnabled", "maxResults"}

DEFAULT_SETTINGS ==
    [pubmedEnabled |-> TRUE, arxivEnabled |-> TRUE, wikipediaEnabled |-> TRUE,
     maxResults |-> DefaultMaxResults]

\* a merge in which the fields of a win
ObjectAssignDefaultsLast(a, b) ==
    IF b = Null THEN a
    ELSE [k \in DOMAIN a \cup DOMAIN b |-> IF k \in DOMAIN a THEN a[k] ELSE b[k]]

\* Object.assign({}, a, b): the own fields of b win, the rest come from a;
\* a null source contributes nothing.
ObjectAssign(a, b) ==
    IF b = Null THEN a
    ELSE [k \in DOMAIN a \cup DOMAIN b |-> IF k \in DOMAIN b THEN b[k] ELSE a[k]]

\* what a later loadData() answers after saveData(obj): the JSON text of obj,
\* parsed. Booleans and finite numbers survive as they are.
SaveData(obj) == [k \in DOMAIN obj |-> obj[k]]

\* loadSettings
LoadSettings(blob) == ObjectAssign(DEFAULT_SETTINGS, blob)


-----------------------------------------------------------------------------
(* Records, remote services and the results area *)

SourceOrder == <<"pubmed", "arxiv", "wikipedia">>
Selectors == {"all", "pubmed", "arxiv", "wikipedia"}

EnableFlag(src) ==
    CASE src = "pubmed" -> "pubmedEnabled"
      [] src = "arxiv" -> "arxivEnabled"
      [] src = "wikipedia" -> "wikipediaEnabled"

SourceTag(src) ==
    CASE src = "pubmed" -> "PubMed"
      [] src = "arxiv" -> "ArXiv"
      [] src = "wikipedia" -> "Wikipedia"

\* what the user can have typed or selected: nothing, or a word
QueryTexts == {"", "crispr"}

\* A SearchResult is a record holding only the fields that are present.
\* The i-th record of a remote service; every second one carries a `source`
\* field of the service's own.
Hit(i) ==
    IF i % 2 = 0
    THEN [title |-> "T" \o ToString(i), source |-> "Crossref"]
    ELSE [title |-> "T" \o ToString(i), year |-> "2020"]

Descending(n) == [i \in 1..n |-> Hit(n + 1 - i)]

\* response.json of a successful request: with a results array of any length
\* up to MaxHits, or without a results key
Envelopes ==
    {[status |-> "ok"]}
    \cup {[results |-> Descending(n)] : n \in 0..MaxHits}

\* what a failing request throws: an Error with a message, or something else
Thrown ==
    {[isError |-> TRUE, message |-> "Request failed, status 500"],
     [isError |-> FALSE]}

\* searchPubMed / searchArxiv / searchWikipedia: response.json.results || []
AdapterResult(json, limit) ==
    IF "results" \in DOMAIN json THEN json.results ELSE <<>>


\* { ...r, source: tag }
Tag(r, tag) ==
    [k \in DOMAIN r \cup {"source"} |-> IF k = "source" THEN tag ELSE r[k]]

TagAll(rs, tag) == [i \in DOMAIN rs |-> Tag(rs[i], tag)]

\* an aggregation that puts the later source first
PushFront(results, more) == more \o results

\* results.push(...more)
Push(results, more) == results \o more

\* a || b on optional strings: absent and "" are both falsy
Or(r, k, fallback) == IF k \in DOMAIN r /\ r[k] # "" THEN r[k] ELSE fallback

SearchingEl == [tag |-> "p", text |-> "Searching..."]
NoResultsEl == [tag |-> "p", text |-> "No results found."]
ErrorEl(e) ==
    [tag |-> "p", cls |-> "builtsimple-error",
     text |-> "Error: " \o (IF e.isError THEN e.message ELSE "Unknown error")]
\* one result's div: the badge, the title, and the record its button inserts
ResultDiv(r) ==
    [tag |-> "div", cls |-> "builtsimple-result",
     badge |-> Or(r, "source", "Unknown"), title |-> Or(r, "title", "Untitled"),
     record |-> r]

\* a display without the 'No results found.' paragraph
DisplayResultsBlankWhenEmpty(results) ==
    Element([i \in DOMAIN results |-> ResultDiv(results[i])])

\* displayResults: the children of the container afterwards
DisplayResults(results) ==
    IF Len(results) = 0 THEN Element(<<NoResultsEl>>)
    ELSE Element([i \in DOMAIN results |-> ResultDiv(results[i])])

\* a catch block that does not empty the container first
ShowErrorKeepsContent(el, e) == Element(Append(el.children, ErrorEl(e)))

\* the catch block of performSearch: the children of the container afterwards
ShowError(el, e) == Element(<<ErrorEl(e)>>)


-----------------------------------------------------------------------------
(* Citation formatter *)

\* Array.prototype.join
RECURSIVE Join(_, _)
Join(strs, sep) ==
    IF Len(strs) = 0 THEN ""
    ELSE IF Len(strs) = 1 THEN strs[1]
    ELSE strs[1] \o sep \o Join(Tail(strs), sep)

\* String.prototype.substring(0, n)
Substring0(str, n) == SubSeq(str, 1, Min(n, Len(str)))

\* result.authors?.join(', ') || 'Unknown'
Authors(r) ==
    LET joined == IF "authors" \in DOMAIN r THEN Join(r.authors, ", ") ELSE ""
    IN  IF joined # "" THEN joined ELSE "Unknown"

\* a year that never falls back to the date
YearIgnoresDate(r) == Or(r, "year", "")

\* result.year || result.date?.substring(0, 4) || ''
Year(r) ==
    Or(r, "year", IF "date" \in DOMAIN r THEN Substring0(r.date, YearLen) ELSE "")

\* result.url || result.link || ''
Url(r) == Or(r, "url", Or(r, "link", ""))

\* a third template that also has the authors and year line
OtherTemplateWithAuthors(title, authors, year, url) ==
    "> **" \o title \o "**\n> " \o authors \o " (" \o year \o ")\n> [Wikipedia]("
        \o url \o ")\n\n"

\* the third template, for every source that is neither PubMed nor ArXiv
OtherTemplate(title, authors, year, url) ==
    "> **" \o title \o "**\n> [Wikipedia](" \o url \o ")\n\n"

formatCitation(r) ==
    LET title == Or(r, "title", "Untitled")
        authors == Authors(r)
        year == Year(r)
        url == Url(r)
        source == Or(r, "source", "")
    IN  IF source = "PubMed"
        THEN "> **" \o title \o "**\n> " \o authors \o " (" \o year
                 \o ")\n> [PubMed](" \o url \o ")\n\n"
        ELSE IF source = "ArXiv"
        THEN "> **" \o title \o "**\n> " \o authors \o " (" \o year
                 \o ")\n> [ArXiv](" \o url \o ")\n\n"
        ELSE OtherTemplate(title, authors, year, url)


-----------------------------------------------------------------------------
(* The search modal *)

\* a test every string passes
HasTextAlways(str) == TRUE

\* if (query), if (this.query), if (selection): a string is truthy unless empty
HasText(str) == str # ""

\* the outer condition alone, without the enable flag
WantedIgnoresFlag(selector, src, st) == selector = "all" \/ selector = src

\* the two nested conditions in front of each adapter call
Wanted(selector, src, st) ==
    (selector = "all" \/ selector = src) /\ st[EnableFlag(src)] = TRUE

\* An activation of performSearch. query, source, limit and results are its
\* parameters and locals; pc and idx say where it stands: about to test the
\* idx-th source ("if"), suspended in that source's adapter ("await"), about
\* to call displayResults ("display"), or over ("displayed", "failed": its
\* locals are gone). History kept for the properties: stable, whether the
\* settings have stayed as they were since the invocation; calls, the requests
\* issued; returned, what each adapter answered.
Activation(q, selector) ==
    [query |-> q, source |-> selector, limit |-> settings.maxResults,
     results |-> <<>>, pc |-> "if", idx |-> 1,
     stable |-> TRUE, calls |-> <<>>,
     returned |-> [src \in {"pubmed", "arxiv", "wikipedia"} |-> <<>>]]

Over(pc) == [pc |-> pc]

SyncPcs == {"if", "display"}
FinalPcs == {"displayed", "failed"}

\* an activation is executing synchronous code: nothing else can run
Running == \E i \in DOMAIN searches : searches[i].pc \in SyncPcs

\* performSearch up to the try block, on the container `el`
PerformSearch(q, selector, el) ==
    IF el = NullEl
    THEN /\ resultsContainer' = el
         /\ UNCHANGED searches
    ELSE /\ resultsContainer' = Element(<<SearchingEl>>)
         /\ searches' = Append(searches, Activation(q, selector))

\* SearchModal.onOpen for a modal constructed with (q, selector); this.query
\* and this.source are read here only, so the modal keeps its life cycle alone
OnOpen(q, selector) ==
    /\ modal' = "open"
    /\ IF HasText(q)
       THEN PerformSearch(q, selector, Element(<<>>))
       ELSE /\ resultsContainer' = Element(<<>>)
            /\ UNCHANGED searches

\* a command can be invoked
Ready ==
    /\ settings # Unloaded
    /\ modal = "none"
    /\ ~Running

\* the ribbon icon
RibbonClick ==
    /\ Ready
    /\ OnOpen("", "all")
    /\ UNCHANGED <<settings, data, editor, saves>>

\* the command 'search-selection'; without a selection it shows a Notice
SearchSelection(selection) ==
    /\ Ready
    /\ IF HasText(selection)
       THEN OnOpen(selection, "all")
       ELSE UNCHANGED <<modal, resultsContainer, searches>>
    /\ UNCHANGED <<settings, data, editor, saves>>

\* the commands 'pubmed-search', 'arxiv-search', 'wikipedia-search'
SourceCommand(src) ==
    /\ Ready
    /\ OnOpen("", src)
    /\ UNCHANGED <<settings, data, editor, saves>>

\* searchBtn.onclick, with the input's value and the selected source
SearchBtnClick(q, selector) ==
    /\ modal = "open"
    /\ ~Running
    /\ Len(searches) < MaxSearches
    /\ IF HasText(q)
       THEN PerformSearch(q, selector, resultsContainer)
       ELSE UNCHANGED <<resultsContainer, searches>>
    /\ UNCHANGED <<settings, data, modal, editor, saves>>

\* where an activation goes after the idx-th source
After(idx) ==
    IF idx < Len(SourceOrder) THEN [pc |-> "if", idx |-> idx + 1]
    ELSE [pc |-> "display", idx |-> idx]

\* the tests in front of the idx-th adapter call, and the call's request
CheckSource(i) ==
    /\ i \in DOMAIN searches
    /\ searches[i].pc = "if"
    /\ LET a == searches[i]
           src == SourceOrder[a.idx]
       IN  IF Wanted(a.source, src, settings)
           THEN searches' = [searches EXCEPT
                    ![i].pc = "await",
                    ![i].calls = Append(@, [adapter |-> src, query |-> a.query,
                                            limit |-> a.limit])]
           ELSE searches' = [searches EXCEPT
                    ![i].pc = After(a.idx).pc,
                    ![i].idx = After(a.idx).idx]
    /\ UNCHANGED <<settings, data, modal, resultsContainer, editor, saves>>

\* the awaited adapter answers: its records are tagged and pushed
AdapterReturn(i, json) ==
    /\ i \in DOMAIN searches
    /\ searches[i].pc = "await"
    /\ ~Running
    /\ LET a == searches[i]
           src == SourceOrder[a.idx]
           rs == AdapterResult(json, a.limit)
       IN  searches' = [searches EXCEPT
               ![i].results = Push(@, TagAll(rs, SourceTag(src))),
               ![i].returned[src] = rs,
               ![i].pc = After(a.idx).pc,
               ![i].idx = After(a.idx).idx]
    /\ UNCHANGED <<settings, data, modal, resultsContainer, editor, saves>>

\* the awaited adapter throws: the catch block
AdapterFail(i, e) ==
    /\ i \in DOMAIN searches
    /\ searches[i].pc = "await"
    /\ ~Running
    /\ searches' = [searches EXCEPT ![i] = Over("failed")]
    /\ resultsContainer' = ShowError(resultsContainer, e)
    /\ UNCHANGED <<settings, data, modal, editor, saves>>

\* a display that keeps what the container held
DisplayKeepsEarlier(i) ==
    /\ i \in DOMAIN searches
    /\ searches[i].pc = "display"
    /\ searches' = [searches EXCEPT ![i] = Over("displayed")]
    /\ resultsContainer' =
           Element(resultsContainer.children
                   \o DisplayResults(searches[i].results).children)
    /\ UNCHANGED <<settings, data, modal, editor, saves>>

\* this.displayResults(results, this.resultsContainer)
Display(i) ==
    /\ i \in DOMAIN searches
    /\ searches[i].pc = "display"
    /\ searches' = [searches EXCEPT ![i] = Over("displayed")]
    /\ resultsContainer' = DisplayResults(searches[i].results)
    /\ UNCHANGED <<settings, data, modal, editor, saves>>

\* onClose, when the user closes the modal or insertCitation does:
\* contentEl is emptied; the field resultsContainer keeps the detached element
OnClose ==
    /\ modal = "open"
    /\ modal' = "closed"

Close ==
    /\ ~Running
    /\ OnClose
    /\ UNCHANGED <<settings, data, resultsContainer, searches, editor, saves>>

\* insertBtn.onclick of the k-th result: insertCitation, which with an active
\* Markdown view inserts the citation, shows a Notice and closes the modal
InsertCitation(k, hasView) ==
    /\ modal = "open"
    /\ ~Running
    /\ k \in DOMAIN resultsContainer.children
    /\ resultsContainer.children[k].tag = "div"
    /\ IF hasView
       THEN /\ editor' = formatCitation(resultsContainer.children[k].record)
            /\ OnClose
       ELSE UNCHANGED <<editor, modal>>
    /\ UNCHANGED <<settings, data, resultsContainer, searches, saves>>

-----------------------------------------------------------------------------
(* The settings tab and the plugin's life cycle *)


\* saveSettings
SaveSettings(st) == SaveData(st)

\* an onChange handler: one field is set, then saveSettings
OnChange(key, value) ==
    /\ settings # Unloaded
    /\ ~Running
    /\ settings' = [settings EXCEPT ![key] = value]
    /\ data' = SaveSettings(settings')
    /\ searches' = [i \in DOMAIN searches |->
           IF searches[i].pc \in FinalPcs THEN searches[i]
           ELSE [searches[i] EXCEPT !.stable = @ /\ settings' = settings]]
    /\ UNCHANGED <<modal, resultsContainer, editor, saves>>

OnChangeToggle(key, value) ==
    /\ key \in {"pubmedEnabled", "arxivEnabled", "wikipediaEnabled"}
    /\ OnChange(key, value)

OnChangeSlider(value) ==
    /\ value \in SliderMin..Min(MaxSlider, SliderMax)
    /\ OnChange("maxResults", value)

\* onload: loadSettings (the commands and the tab are registered after it)
Onload ==
    /\ settings = Unloaded
    /\ settings' = LoadSettings(data)
    /\ UNCHANGED <<data, modal, resultsContainer, searches, editor, saves>>

\* the plugin is unloaded (it is disabled, or the application quits)
Unload ==
    /\ settings # Unloaded
    /\ modal = "none"
    /\ settings' = Unloaded
    /\ UNCHANGED <<data, modal, resultsContainer, searches, editor, saves>>

-----------------------------------------------------------------------------
(* Specification of the search session: the plugin has loaded the settings *)
(* of a fresh install                                                      *)

Init ==
    /\ data = Null
    /\ settings = LoadSettings(data)
    /\ modal = "none"
    /\ resultsContainer = NullEl
    /\ searches = <<>>
    /\ editor = ""
    /\ saves = <<>>

Next ==
    \/ RibbonClick
    \/ \E selection \in QueryTexts : SearchSelection(selection)
    \/ \E src \in Selectors \ {"all"} : SourceCommand(src)
    \/ \E q \in QueryTexts, selector \in Selectors : SearchBtnClick(q, selector)
    \/ \E i \in 1..MaxSearches : CheckSource(i)
    \/ \E i \in 1..MaxSearches, json \in Envelopes : AdapterReturn(i, json)
    \/ \E i \in 1..MaxSearches, e \in Thrown : AdapterFail(i, e)
    \/ \E i \in 1..MaxSearches : Display(i)
    \/ Close
    \/ \E k \in 1..(Len(SourceOrder) * MaxHits), hasView \in BOOLEAN :
           InsertCitation(k, hasView)
    \/ \E key \in SettingKeys \ {"maxResults"}, value \in BOOLEAN :
           OnChangeToggle(key, value)
    \/ \E value \in SliderMin..SliderMax : OnChangeSlider(value)

Spec == Init /\ [][Next]_vars

-----------------------------------------------------------------------------
(* Specification of the settings store: a plugin not yet loaded, over what *)
(* data.json can hold                                                      *)

\* a present or an absent field
Options(values) == {[has |-> FALSE]} \cup {[has |-> TRUE, v |-> x] : x \in values}

\* the record holding the present fields of opts
Present(opts) == [k \in {f \in DOMAIN opts : opts[f].has} |-> opts[k].v]

\* data.json: nothing saved yet, or an object with any of the four fields
\* (an older or hand-edited file can lack some), or one with a field the
\* plugin does not know
Blobs ==
    {Null, [pubmedEnabled |-> FALSE, legacy |-> "x"]}
    \cup {Present([pubmedEnabled |-> p, arxivEnabled |-> a,
                   wikipediaEnabled |-> w, maxResults |-> m]) :
            p \in Options(BOOLEAN), a \in Options(BOOLEAN), w \in Options(BOOLEAN),
            m \in Options(SliderMin..Min(MaxSlider, SliderMax))}

InitSettings ==
    /\ data \in Blobs
    /\ settings = Unloaded
    /\ modal = "none"
    /\ resultsContainer = NullEl
    /\ searches = <<>>
    /\ editor = ""
    /\ saves = <<>>

NextSettings ==
    \/ Onload
    \/ \E key \in SettingKeys \ {"maxResults"}, value \in BOOLEAN :
           OnChangeToggle(key, value)
    \/ \E value \in SliderMin..SliderMax : OnChangeSlider(value)
    \/ Unload

SpecSettings == InitSettings /\ [][NextSettings]_vars

-----------------------------------------------------------------------------
(* Specification of the citation formatter: an open modal displaying one   *)
(* record, over the shapes a record can have                               *)

FormatInputs ==
    {Present([title |-> t, authors |-> a, year |-> y, date |-> d, url |-> u,
              link |-> l, source |-> s]) :
        t \in Options({"", "CRISPR"}),
        a \in Options({<<>>, <<"Doe J">>, <<"Doe J", "Roe R">>}),
        y \in Options({"", "1999"}),
        d \in Options({"", "20", "2023-05-01"}),
        u \in Options({"", "https://u"}),
        l \in Options({"", "https://l"}),
        s \in Options({"PubMed", "ArXiv", "Wikipedia", "Scholar"})}

InitFormat ==
    /\ data = Null
    /\ settings = LoadSettings(data)
    /\ modal = "open"
    /\ \E r \in FormatInputs : resultsContainer = DisplayResults(<<r>>)
    /\ searches = <<>>
    /\ editor = ""
    /\ saves = <<>>

NextFormat == \E hasView \in BOOLEAN : InsertCitation(1, hasView)

SpecFormat == InitFormat /\ [][NextFormat]_vars

-----------------------------------------------------------------------------
(* Specification of overlapping saves: the settings tab of a loaded plugin. *)
(* OnChange above is a handler whose write lands before anything else runs; *)
(* here a handler's write stays in flight while further handlers run.       *)

\* seq without its w-th element
Remove(seq, w) ==
    [k \in 1..(Len(seq) - 1) |-> IF k < w THEN seq[k] ELSE seq[k + 1]]

\* an onChange handler up to its await: one field is set and saveSettings
\* calls saveData with the settings as they then are
OnChangeCall(key, value) ==
    /\ settings # Unloaded
    /\ Len(saves) < MaxSaves
    /\ settings' = [settings EXCEPT ![key] = value]
    /\ saves' = Append(saves, SaveData(settings'))
    /\ UNCHANGED <<data, modal, resultsContainer, searches, editor>>

OnChangeToggleCall(key, value) ==
    /\ key \in {"pubmedEnabled", "arxivEnabled", "wikipediaEnabled"}
    /\ OnChangeCall(key, value)

OnChangeSliderCall(value) ==
    /\ value \in SliderMin..Min(MaxSlider, SliderMax)
    /\ OnChangeCall("maxResults", value)

\* the write of a pending saveData call lands and its handler's await
\* returns. No handler waits for an earlier save before starting its own, and
\* nothing in the plugin orders the writes of two calls in flight: either
\* can land first.
SaveDataLands(w) ==
    /\ w \in DOMAIN saves
    /\ data' = saves[w]
    /\ saves' = Remove(saves, w)
    /\ UNCHANGED <<settings, modal, resultsContainer, searches, editor>>

InitSaves == Init

NextSaves ==
    \/ \E key \in SettingKeys \ {"maxResults"}, value \in BOOLEAN :
           OnChangeToggleCall(key, value)
    \/ \E value \in SliderMin..SliderMax : OnChangeSliderCall(value)
    \/ \E w \in 1..MaxSaves : SaveDataLands(w)

SpecSaves == InitSaves /\ [][NextSaves]_vars

-----------------------------------------------------------------------------
(* Vocabulary of the properties *)

Range(seq) == {seq[k] : k \in DOMAIN seq}

\* the fan-out set of a search: the sources its selector covers and the
\* settings enable
FanOutSet(selector, st) ==
    {src \in Range(SourceOrder) :
        (selector = "all" \/ selector = src) /\ st[EnableFlag(src)] = TRUE}

\* the state of the search session, read off the results area
SessionState ==
    IF resultsContainer = NullEl THEN "Idle"
    ELSE LET c == resultsContainer.children
         IN  IF c = <<>> THEN "Idle"
             ELSE IF c = <<SearchingEl>> THEN "Searching"
             ELSE IF Len(c) = 1 /\ c[1].tag = "p" /\ "cls" \in DOMAIN c[1]
                  THEN "Failed"
             ELSE IF c = <<NoResultsEl>> \/ \A k \in DOMAIN c : c[k].tag = "div"
                  THEN "Displayed"
             ELSE "Mixed"

\* the records a results area displays, in order
Shown(el) ==
    IF \A k \in DOMAIN el.children : el.children[k].tag = "div"
    THEN [k \in DOMAIN el.children |-> el.children[k].record]
    ELSE <<>>

\* how many of the records rs carry the tag
CountOf(rs, tag) == Cardinality({k \in DOMAIN rs : rs[k].source = tag})

\* in this step a search is invoked, activation i succeeds, activation i fails
Invoked == Len(searches') > Len(searches)
Succeeds(i) == searches[i].pc = "display" /\ searches'[i].pc = "displayed"
Fails(i) == searches[i].pc = "await" /\ searches'[i].pc = "failed"
Ends(i) == Succeeds(i) \/ Fails(i)

-----------------------------------------------------------------------------
(* Properties of the aggregator and the search session (Spec) *)

\* C1 (as claimed): when a search ends whose settings stayed as they were,
\* the adapters it invoked are exactly the sources of its fan-out set.
C1_InvokedIffIncluded ==
    [][\A i \in DOMAIN searches :
          (Ends(i) /\ searches[i].stable)
          => {c.adapter : c \in Range(searches[i].calls)}
                 = FanOutSet(searches[i].source, settings)]_vars

\* C2: a search whose fan-out set is empty runs from its invocation to
\* displayResults without a request and without a record, cannot fail, and
\* displays 'No results found.'. (An activation in synchronous code with no
\* request issued has run without interruption since its invocation, so the
\* settings are those of the invocation.)
C2_EmptyFanOut ==
    [][\A i \in DOMAIN searches :
          LET a == searches[i]
              b == searches'[i]
          IN  (/\ a.pc \in SyncPcs
               /\ a.calls = <<>>
               /\ FanOutSet(a.source, settings) = {})
              => /\ a.results = <<>>
                 /\ b.pc \in SyncPcs \cup {"displayed"}
                 /\ b.pc \in SyncPcs =>
                       /\ b.calls = <<>>
                       /\ b.results = <<>>
                       /\ SessionState' = "Searching"
                 /\ b.pc = "displayed" =>
                       resultsContainer' = Element(<<NoResultsEl>>)]_vars

\* C2 witness: a search for PubMed alone, with PubMed disabled and the other
\* two sources enabled, has passed all three tests without a request.
C2_Witness ==
    \E i \in DOMAIN searches :
        /\ searches[i].pc = "display"
        /\ searches[i].source = "pubmed"
        /\ searches[i].calls = <<>>
        /\ ~settings.pubmedEnabled
        /\ settings.arxivEnabled
        /\ settings.wikipediaEnabled

\* C3: when an adapter invocation of a search fails, the results area holds
\* one error line and nothing else: no record, whatever the search had
\* collected.
C3_FailureShowsOnlyError ==
    [][\A i \in DOMAIN searches :
          Fails(i)
          => /\ SessionState' = "Failed"
             /\ Len(resultsContainer'.children) = 1
             /\ \E e \in Thrown : resultsContainer'.children[1] = ErrorEl(e)]_vars

\* C3 witness: the first search of the modal has failed and the results
\* area shows the error line.
C3_Witness ==
    /\ Len(searches) = 1
    /\ searches[1].pc = "failed"
    /\ SessionState = "Failed"

\* C4: when a search succeeds, the records displayed are those PubMed
\* answered, then those ArXiv answered, then those Wikipedia answered, each
\* group in the order of the answer, each record with its fields as answered
\* but for `source`, which is the tag of its group.
C4_ConcatenationOrder ==
    [][\A i \in DOMAIN searches :
          Succeeds(i)
          => LET ret == searches[i].returned
                 shown == Shown(resultsContainer')
                 base(j) == IF j = 1 THEN 0
                            ELSE IF j = 2 THEN Len(ret["pubmed"])
                            ELSE Len(ret["pubmed"]) + Len(ret["arxiv"])
             IN  /\ Len(shown) = Len(ret["pubmed"]) + Len(ret["arxiv"])
                                     + Len(ret["wikipedia"])
                 /\ \A j \in DOMAIN SourceOrder :
                      \A k \in DOMAIN ret[SourceOrder[j]] :
                         LET r == ret[SourceOrder[j]][k]
                             d == shown[base(j) + k]
                         IN  /\ DOMAIN d = DOMAIN r \cup {"source"}
                             /\ d.source = SourceTag(SourceOrder[j])
                             /\ \A f \in DOMAIN r \ {"source"} : d[f] = r[f]
                             /\ resultsContainer'.children[base(j) + k].badge
                                    = SourceTag(SourceOrder[j])]_vars

\* C4 witness: two PubMed records in the order answered (the second of them
\* came with a source field of the service's own), then one ArXiv record.
C4_Witness ==
    /\ SessionState = "Displayed"
    /\ Len(Shown(resultsContainer)) = 3
    /\ LET shown == Shown(resultsContainer)
       IN  /\ shown[1] = [title |-> "T2", source |-> "PubMed"]
           /\ shown[2] = [title |-> "T1", year |-> "2020", source |-> "PubMed"]
           /\ shown[3].source = "ArXiv"

\* C5 (as claimed): what a search displays holds at most settings.maxResults
\* records of each source, and so at most 3 x maxResults records.
C5_AtMostMaxResults ==
    [][\A i \in DOMAIN searches :
          (Succeeds(i) /\ searches[i].stable)
          => LET shown == Shown(resultsContainer')
             IN  /\ \A src \in Range(SourceOrder) :
                       CountOf(shown, SourceTag(src)) <= settings.maxResults
                 /\ Len(shown) <= Len(SourceOrder) * settings.maxResults]_vars

\* C6 (as claimed): the session moves only Idle, Displayed or Failed to
\* Searching, and Searching to Displayed or Failed; an invocation enters
\* Searching; Searching moves to Displayed exactly when a search succeeds
\* and to Failed exactly when a search fails.
C6_OnlyListedTransitions ==
    [][/\ SessionState' # SessionState
          => <<SessionState, SessionState'>> \in
                 {<<"Idle", "Searching">>, <<"Displayed", "Searching">>,
                  <<"Failed", "Searching">>, <<"Searching", "Displayed">>,
                  <<"Searching", "Failed">>}
       /\ Invoked => SessionState' = "Searching"
       /\ SessionState = "Searching"
          => /\ SessionState' = "Displayed"
                   <=> \E i \in DOMAIN searches : Succeeds(i)
             /\ SessionState' = "Failed"
                   <=> \E i \in DOMAIN searches : Fails(i)]_vars

\* C6 (amended): an invocation puts the session in Searching, from any state;
\* a search that succeeds puts it in Displayed and a search that fails puts
\* it in Failed, from whatever state it is in then; the session's state
\* changes in no other step.
C6_Transitions ==
    [][/\ Invoked => SessionState' = "Searching"
       /\ \A i \in DOMAIN searches :
             /\ Succeeds(i) => SessionState' = "Displayed"
             /\ Fails(i) => SessionState' = "Failed"
       /\ SessionState' # SessionState
          => \/ Invoked
             \/ \E i \in DOMAIN searches : Ends(i)]_vars

\* C6 witness: the session is in Displayed while the second search is still
\* in flight: the first search succeeded after the second was invoked.
C6_Witness ==
    /\ Len(searches) = 2
    /\ searches[1].pc = "displayed"
    /\ searches[2].pc = "await"
    /\ SessionState = "Displayed"

-----------------------------------------------------------------------------
(* Properties of the citation formatter (SpecFormat) *)

\* the record whose button is clicked, and whether its citation is inserted
Clicked == resultsContainer.children[1].record
Inserted == modal = "closed"

StartsWith(str, pre) ==
    Len(pre) <= Len(str) /\ SubSeq(str, 1, Len(pre)) = pre
EndsWith(str, suf) ==
    Len(suf) <= Len(str) /\ SubSeq(str, Len(str) - Len(suf) + 1, Len(str)) = suf
Contains(str, part) ==
    \E k \in 1..(Len(str) - Len(part) + 1) :
        SubSeq(str, k, k + Len(part) - 1) = part

\* the citation shows the year y (between the authors and the link line) and
\* the url u (in the link that ends it)
ShowsYear(str, y) == Contains(str, " (" \o y \o ")\n> [")
ShowsUrl(str, u) == EndsWith(str, "](" \o u \o ")\n\n")

IsSource(r, tag) == "source" \in DOMAIN r /\ r.source = tag

\* C8: formatCitation answers every record with a citation; for a record
\* with no field but its source it is exactly the fallback text of the
\* source's template: PubMed's, ArXiv's, or for any other source (or none)
\* the Wikipedia one.
C8_FormatTotal ==
    Inserted
    => /\ editor \in STRING
       /\ StartsWith(editor, "> **")
       /\ EndsWith(editor, ")\n\n")
       /\ DOMAIN Clicked \subseteq {"source"}
          => editor =
                IF IsSource(Clicked, "PubMed")
                THEN "> **Untitled**\n> Unknown ()\n> [PubMed]()\n\n"
                ELSE IF IsSource(Clicked, "ArXiv")
                THEN "> **Untitled**\n> Unknown ()\n> [ArXiv]()\n\n"
                ELSE "> **Untitled**\n> [Wikipedia]()\n\n"

\* C8 witness: the citation of a record with no field at all, not even a
\* source, has been inserted.
C8_Witness ==
    /\ Inserted
    /\ DOMAIN Clicked = {}
    /\ editor = "> **Untitled**\n> [Wikipedia]()\n\n"

\* C9 (as claimed): the year shown is record.year when the field is present,
\* else the first 4 characters of record.date when that is present, else
\* empty; the url shown is record.url when present, else record.link, else
\* empty.
C9_YearAndUrlWhenPresent ==
    Inserted
    => LET r == Clicked
           year == IF "year" \in DOMAIN r THEN r.year
                   ELSE IF "date" \in DOMAIN r
                        THEN SubSeq(r.date, 1, Min(4, Len(r.date)))
                   ELSE ""
           url == IF "url" \in DOMAIN r THEN r.url
                  ELSE IF "link" \in DOMAIN r THEN r.link
                  ELSE ""
       IN  /\ ShowsUrl(editor, url)
           /\ (IsSource(r, "PubMed") \/ IsSource(r, "ArXiv"))
              => ShowsYear(editor, year)

\* C9 (amended): the same with "present" read as present and not empty.
C9_YearAndUrlWhenNotEmpty ==
    Inserted
    => LET r == Clicked
           has(k) == k \in DOMAIN r /\ r[k] # ""
           year == IF has("year") THEN r.year
                   ELSE IF has("date")
                        THEN SubSeq(r.date, 1, Min(4, Len(r.date)))
                   ELSE ""
           url == IF has("url") THEN r.url
                  ELSE IF has("link") THEN r.link
                  ELSE ""
       IN  /\ ShowsUrl(editor, url)
           /\ (IsSource(r, "PubMed") \/ IsSource(r, "ArXiv"))
              => ShowsYear(editor, year)

\* C9 witness: a PubMed record with an empty year and no url, with the date
\* 2023-05-01 and a link, is cited with the year 2023 and the link.
C9_Witness ==
    /\ Inserted
    /\ IsSource(Clicked, "PubMed")
    /\ "year" \in DOMAIN Clicked /\ Clicked.year = ""
    /\ "url" \notin DOMAIN Clicked
    /\ "date" \in DOMAIN Clicked /\ Clicked.date = "2023-05-01"
    /\ "link" \in DOMAIN Clicked /\ Clicked.link = "https://l"
    /\ ShowsYear(editor, "2023")
    /\ ShowsUrl(editor, "https://l")

-----------------------------------------------------------------------------
(* Properties of the settings store (SpecSettings) *)

\* C10: whenever settings are loaded, loading what is persisted yields them
\* again, field for field (after every saveSettings in particular); and
\* loadSettings yields, for each of the four fields, the persisted value if
\* the blob has the field and the default (enabled, 5 results) if not.
C10_SettingsRoundTrip ==
    /\ [](settings # Unloaded => LoadSettings(data) = settings)
    /\ [][(settings = Unloaded /\ settings' # Unloaded)
          => \A k \in SettingKeys :
                settings'[k] = IF k \in DOMAIN data THEN data[k]
                               ELSE IF k = "maxResults" THEN 5
                               ELSE TRUE]_vars

\* C10 witness: a blob holding a disabled PubMed and a limit of 1, and
\* nothing on the other two sources, has been loaded.
C10_Witness ==
    /\ data = [pubmedEnabled |-> FALSE, maxResults |-> 1]
    /\ settings = [pubmedEnabled |-> FALSE, arxivEnabled |-> TRUE,
                   wikipediaEnabled |-> TRUE, maxResults |-> 1]

-----------------------------------------------------------------------------
(* Properties of overlapping saves (SpecSaves) *)

\* C11: once no change handler is pending, and at least one has run, the
\* persisted settings equal the settings in memory field for field; and the
\* settings in memory change only in a step of a change handler.
C11_NoLostUpdate ==
    /\ []((saves = <<>> /\ data # Null)
          => \A k \in SettingKeys : k \in DOMAIN data /\ data[k] = settings[k])
    /\ [][settings' # settings => Len(saves') = Len(saves) + 1]_vars

-----------------------------------------------------------------------------
(* Further properties of the search session (Spec) *)

\* the adapters activation a has invoked so far
Called(a) == {c.adapter : c \in Range(a.calls)}

\* C12 (as claimed): in a search whose settings stay as they were, no
\* invocation waits on another: whenever the search is waiting for an
\* adapter's answer, every adapter of its fan-out set has been invoked; and
\* when the search ends, every adapter of the fan-out set has been invoked
\* exactly once, with the query and settings.maxResults, and no other one.
C12_IndependentInvocations ==
    [][\A i \in DOMAIN searches' :
          /\ (searches'[i].pc = "await" /\ searches'[i].stable)
             => FanOutSet(searches'[i].source, settings') \subseteq Called(searches'[i])
          /\ (i \in DOMAIN searches /\ Ends(i) /\ searches[i].stable)
             => LET a == searches[i]
                    fan == FanOutSet(a.source, settings)
                IN  /\ Len(a.calls) = Cardinality(fan)
                    /\ \A src \in fan :
                          [adapter |-> src, query |-> a.query,
                           limit |-> settings.maxResults] \in Range(a.calls)]_vars

\* C13 (as claimed): once the modal is closed, nothing is written into its
\* results area any more.
C13_ClosedViewUntouched ==
    [][modal = "closed" => resultsContainer' = resultsContainer]_vars

\* searches have been invoked and all of them are over
AllOver ==
    /\ searches # <<>>
    /\ \A i \in DOMAIN searches : searches[i].pc \in FinalPcs

\* C14: a search invoked while others are in flight leaves them as they
\* are, and a step of one search never changes another; once a search has
\* been invoked the results area shows 'Searching...', or the records of one
\* search, or 'No results found.', or one error line, and nothing else; a
\* search that succeeds puts exactly its own records there, in its own
\* order, and one that fails the error line alone; and when every search is
\* over the area stays as the last one to end left it.
C14_OverlappingSearches ==
    [][/\ \A i \in DOMAIN searches :
             (/\ searches[i].pc \notin FinalPcs
              /\ settings' = settings
              /\ Invoked \/ \E j \in DOMAIN searches \ {i} :
                                searches'[j] # searches[j])
             => searches'[i] = searches[i]
       /\ Len(searches') >= 1
          => SessionState' \in {"Searching", "Displayed", "Failed"}
       /\ \A i \in DOMAIN searches :
             /\ Succeeds(i)
                => resultsContainer'.children =
                      IF searches[i].results = <<>> THEN <<NoResultsEl>>
                      ELSE [k \in DOMAIN searches[i].results |->
                               ResultDiv(searches[i].results[k])]
             /\ Fails(i)
                => /\ Len(resultsContainer'.children) = 1
                   /\ SessionState' = "Failed"
       /\ (AllOver /\ ~Invoked) => resultsContainer' = resultsContainer]_vars

\* C14 witness: of two overlapping searches the later-issued one has
\* displayed its outcome and the earlier-issued one has failed after that:
\* the area shows the earlier one's error line.
C14_Witness ==
    /\ Len(searches) = 2
    /\ searches[1].pc = "failed"
    /\ searches[2].pc = "displayed"
    /\ SessionState = "Failed"

=============================================================================
